---- MODULE Spec2Model ----
(***************************************************************************)
(* Model of streamlit_app.py: the text extraction pipeline                 *)
(* (extract_text_any, docx_to_text, pdf_to_text), the text normalizer      *)
(* (normalize_text) and the label anchored field parser (find_after,       *)
(* to_int_num, extract_fields).                                            *)
(*                                                                         *)
(* A Python str is modelled as a sequence of one-character strings, so     *)
(* that the regular expressions and str methods of the source are          *)
(* computed character by character.                                        *)
(***************************************************************************)
EXTENDS Integers, Sequences, FiniteSets, TLC

VARIABLES
    pc,           \* position of the running function
    input,        \* argument of normalize_text / extract_fields
    once,         \* normalize_text(input)
    twice,        \* normalize_text(normalize_text(input))
    fields,       \* the dict returned by extract_fields
    ext,          \* extract_text_any: the format tag
    file,         \* extract_text_any: the uploaded file and what the
                  \* libraries do with it
    _docx,        \* python-docx was imported
    _pdfplumber,  \* pdfplumber was imported
    _pytesseract, \* pytesseract and pdf2image were imported
    pos,          \* read position of the BytesIO handed to docx_to_text
    out,          \* pdf_to_text: OCR text of the pages recognized so far
    ret,          \* value returned by docx_to_text / pdf_to_text
    text,         \* text returned by extract_text_any
    logs,         \* log returned by extract_text_any
    notices,      \* st.warning / st.error messages shown
    calls         \* library calls made, in order, each with its outcome

fieldVars == <<input, once, twice, fields>>
extractVars == <<ext, file, _docx, _pdfplumber, _pytesseract, pos, out, ret,
                 text, logs, notices, calls>>
vars == <<pc, fieldVars, extractVars>>

(***************************************************************************)
(* Characters and str helpers                                              *)
(***************************************************************************)
SP == " "
TAB == "\t"
NL == "\n"
CR == "\r"

\* the characters str.strip() and the regex class \s treat as whitespace
Whitespace == {SP, TAB, NL, CR}

\* the regex class [ \t]
HSpace == {SP, TAB}

\* every sequence over S of length at most n
SeqsUpTo(S, n) == UNION {[1..k -> S] : k \in 0..n}

\* s[a..b], empty when a > b
Slice(s, a, b) == IF a > b THEN <<>> ELSE SubSeq(s, a, b)

\* index of the first character at or after i that is not whitespace,
\* Len(s) + 1 when there is none
FirstNonWs(s, i) ==
    IF i > Len(s) THEN i
    ELSE CHOOSE p \in i..(Len(s) + 1) :
            /\ p = Len(s) + 1 \/ s[p] \notin Whitespace
            /\ \A q \in i..(p - 1) : s[q] \in Whitespace

\* index of the last character at or before i that is not whitespace,
\* 0 when there is none
LastNonWs(s, i) ==
    IF i < 1 THEN i
    ELSE CHOOSE p \in 0..i :
            /\ p = 0 \/ s[p] \notin Whitespace
            /\ \A q \in (p + 1)..i : s[q] \in Whitespace

\* str.strip(): drop leading and trailing whitespace
Strip(s) == Slice(s, FirstNonWs(s, 1), LastNonWs(s, Len(s)))

\* `not s.strip()`
IsBlank(s) == \A i \in 1..Len(s) : s[i] \in Whitespace

(***************************************************************************)
(* normalize_text                                                          *)
(***************************************************************************)
\* the indices 1..n in order
Indices(n) == [i \in 1..n |-> i]

\* re.sub(r"[ \t]+", " ", t): every maximal run of spaces and tabs becomes
\* one space, that is, the first character of a run is replaced by a space
\* and the others are dropped
CollapseHSpace(s) ==
    LET Keep(i) == ~(s[i] \in HSpace /\ i > 1 /\ s[i - 1] \in HSpace)
        kept == SelectSeq(Indices(Len(s)), Keep)
    IN  [k \in 1..Len(kept) |-> IF s[kept[k]] \in HSpace THEN SP ELSE s[kept[k]]]

\* a buggy variant: the pattern \n\n instead of \n{2,}, which halves a run
\* of newlines instead of collapsing it
RECURSIVE CollapseNewlinePairs(_)
CollapseNewlinePairs(s) ==
    IF s = <<>> THEN <<>>
    ELSE IF Len(s) >= 2 /\ s[1] = NL /\ s[2] = NL
         THEN <<NL>> \o CollapseNewlinePairs(Slice(s, 3, Len(s)))
         ELSE <<Head(s)>> \o CollapseNewlinePairs(Tail(s))

\* re.sub(r"\n{2,}", "\n", t): every maximal run of two or more newlines
\* becomes one newline, that is, a newline that follows a newline is dropped
CollapseNewlines(s) ==
    LET Keep(i) == ~(s[i] = NL /\ i > 1 /\ s[i - 1] = NL)
        kept == SelectSeq(Indices(Len(s)), Keep)
    IN  [k \in 1..Len(kept) |-> s[kept[k]]]

normalize_text(t) == Strip(CollapseNewlines(CollapseHSpace(t)))

\* no extraction is running
ExtractIdle ==
    /\ ext = ""
    /\ file = <<>>
    /\ _docx = FALSE
    /\ _pdfplumber = FALSE
    /\ _pytesseract = FALSE
    /\ pos = 0
    /\ out = <<>>
    /\ ret = <<>>
    /\ text = <<>>
    /\ logs = <<>>
    /\ notices = <<>>
    /\ calls = <<>>

(***************************************************************************)
(* Specification of the normalizer: normalize_text applied to an input,    *)
(* and then to its own result.                                             *)
(***************************************************************************)
MaxNormLen == 5

NormAlphabet == {SP, TAB, NL, CR, "a"}

NormInit ==
    /\ pc = "norm_start"
    /\ input \in SeqsUpTo(NormAlphabet, MaxNormLen)
    /\ once = <<>>
    /\ twice = <<>>
    /\ fields = <<>>
    /\ ExtractIdle

NormalizeOnce ==
    /\ pc = "norm_start"
    /\ once' = normalize_text(input)
    /\ pc' = "norm_once"
    /\ UNCHANGED <<input, twice, fields, extractVars>>

NormalizeTwice ==
    /\ pc = "norm_once"
    /\ twice' = normalize_text(once)
    /\ pc' = "norm_done"
    /\ UNCHANGED <<input, once, fields, extractVars>>

NormNext == NormalizeOnce \/ NormalizeTwice

SpecNorm == NormInit /\ [][NormNext]_vars

\* C6: normalize_text is idempotent: normalizing the normalized text again
\* changes nothing, for every input including the empty string.
C6_Idempotent == pc = "norm_done" => twice = once

\* an input mixing tabs, spaces and runs of newlines that normalization
\* really changes, normalized twice
C6_Witness ==
    /\ pc = "norm_done"
    /\ input = <<TAB, "a", NL, NL, SP>>
    /\ once = <<"a">>

(***************************************************************************)
(* find_after, to_int_num, extract_fields                                  *)
(***************************************************************************)
UpperLetters == <<"A", "B", "C", "D", "E", "F", "G", "H", "I", "J", "K", "L", "M", "N", "O", "P", "Q", "R", "S", "T", "U", "V", "W", "X", "Y", "Z">>
LowerLetters == <<"a", "b", "c", "d", "e", "f", "g", "h", "i", "j", "k", "l", "m", "n", "o", "p", "q", "r", "s", "t", "u", "v", "w", "x", "y", "z">>
Digits == <<"0", "1", "2", "3", "4", "5", "6", "7", "8", "9">>

\* the regex class \d
IsDigit(c) == \E k \in 1..Len(Digits) : Digits[k] = c

DigitVal(c) == (CHOOSE k \in 1..Len(Digits) : Digits[k] = c) - 1

\* the regex class \w
IsWordChar(c) ==
    \/ IsDigit(c)
    \/ c = "_"
    \/ \E k \in 1..Len(UpperLetters) : UpperLetters[k] = c \/ LowerLetters[k] = c

\* case folding of re.IGNORECASE
LowerOf == [c \in {UpperLetters[k] : k \in 1..Len(UpperLetters)} |->
              LowerLetters[CHOOSE k \in 1..Len(UpperLetters) : UpperLetters[k] = c]]

Lower(c) == IF c \in DOMAIN LowerOf THEN LowerOf[c] ELSE c

LabelNombre == <<"N", "O", "M", "B", "R", "E">>
LabelUnidad == <<"R", "E", "Q", "U", "I", "R", "E", "N", "T", "E", SP, "(", "U", "N", "I", "D", "A", "D", ")">>
LabelObjetivo == <<"O", "B", "J", "E", "T", "I", "V", "O">>
LabelMonto == <<"M", "O", "N", "T", "O", SP, "E", "S", "T", "I", "M", "A", "D", "O">>

\* the regex class [:\-]
SepChars == {":", "-"}

\* default of find_after's maxlen parameter
MaxValueLen == 400

\* the literal lit matches txt at index i, ignoring case
LiteralAt(lit, txt, i) ==
    /\ i >= 1
    /\ i + Len(lit) - 1 <= Len(txt)
    /\ \A k \in 1..Len(lit) : Lower(txt[i + k - 1]) = Lower(lit[k])

\* greedy \s* from index j: the index of the first character it leaves
SkipWs(txt, j) == FirstNonWs(txt, j)

\* greedy .+ from index p: the index of the last character it takes
\* (. matches everything but a newline)
EndOfLine(txt, p) ==
    CHOOSE q \in p..Len(txt) :
        /\ q = Len(txt) \/ txt[q + 1] = NL
        /\ \A r \in (p + 1)..q : txt[r] # NL

MaxOf(S) == CHOOSE x \in S : \A y \in S : y <= x
MinOf(S) == CHOOSE x \in S : \A y \in S : x <= y

\* The pattern  label\s*[:\-]?\s*(.+)  tried at index i: the index where
\* group 1 starts, 0 when the pattern does not match at i.  Each quantifier
\* is greedy; when .+ finds the end of the text, the regex engine backtracks
\* through the second \s*, then the optional separator, then the first \s*.
GroupStart(label, txt, i) ==
    IF ~LiteralAt(label, txt, i) THEN 0
    ELSE LET n == Len(txt)
             j == i + Len(label)
             j1 == SkipWs(txt, j)
             hasSep == j1 <= n /\ txt[j1] \in SepChars
             j2 == IF hasSep THEN j1 + 1 ELSE j1
             j3 == SkipWs(txt, j2)
             back2 == {p \in j2..n : txt[p] # NL}
             back1 == {p \in j..n : txt[p] # NL}
         IN  IF j3 <= n THEN j3
             ELSE IF back2 # {} THEN MaxOf(back2)
             ELSE IF hasSep THEN j1
             ELSE IF back1 # {} THEN MaxOf(back1)
             ELSE 0

\* re.search: the leftmost index where the pattern matches, 0 when there is
\* none
Search(label, txt) ==
    LET hits == {i \in 1..Len(txt) : GroupStart(label, txt, i) # 0}
    IN  IF hits = {} THEN 0 ELSE MinOf(hits)

\* s.split("\n")[0]
FirstLine(s) ==
    LET nls == {i \in 1..Len(s) : s[i] = NL}
    IN  IF nls = {} THEN s ELSE Slice(s, 1, MinOf(nls) - 1)

\* val[:maxlen]
Truncate(s, maxlen) == IF Len(s) <= maxlen THEN s ELSE SubSeq(s, 1, maxlen)

\* a buggy variant: the whole tail of the text is kept, line breaks included
find_after_Multiline(label, txt) ==
    LET i == Search(label, txt)
    IN  IF i = 0 THEN <<>>
        ELSE Truncate(Strip(Slice(txt, GroupStart(label, txt, i), Len(txt))),
                      MaxValueLen)

find_after(label, txt) ==
    LET i == Search(label, txt)
    IN  IF i = 0 THEN <<>>
        ELSE LET p == GroupStart(label, txt, i)
                 group1 == Slice(txt, p, EndOfLine(txt, p))
                 val == Strip(FirstLine(Strip(group1)))
             IN  Truncate(val, MaxValueLen)

\* Python's None, and an int n, as a value of an optional
None == <<>>
Some(n) == <<n>>

\* int(s) for a string of decimal digits
RECURSIVE IntOf(_)
IntOf(d) ==
    IF d = <<>> THEN 0
    ELSE 10 * IntOf(SubSeq(d, 1, Len(d) - 1)) + DigitVal(d[Len(d)])

\* a buggy variant: no digits gives zero instead of None
to_int_num_Zero(s) == Some(IntOf(SelectSeq(s, IsDigit)))

to_int_num(s) ==
    IF s = <<>> THEN None
    ELSE LET d == SelectSeq(s, IsDigit)
         IN  IF d # <<>> THEN Some(IntOf(d)) ELSE None

\* The pattern  \d{1,2}\s+de\s+\w+\s+de\s+\d{4}  tried at index i: the index
\* of the last character matched, 0 when it does not match at i.
\* greedy \w+ from index j: the index of the first character it leaves
SkipWord(txt, j) ==
    IF j > Len(txt) THEN j
    ELSE CHOOSE p \in j..(Len(txt) + 1) :
            /\ p = Len(txt) + 1 \/ ~IsWordChar(txt[p])
            /\ \A q \in j..(p - 1) : IsWordChar(txt[q])

DateDe == <<"d", "e">>

DateRest(txt, j) ==
    \* from the \s+ that follows the day number, at index j
    LET a == SkipWs(txt, j)
        b == SkipWs(txt, a + 2)
        c == SkipWord(txt, b)
        d == SkipWs(txt, c)
        e == SkipWs(txt, d + 2)
    IN  IF /\ a > j /\ LiteralAt(DateDe, txt, a)
           /\ b > a + 2
           /\ c > b
           /\ d > c /\ LiteralAt(DateDe, txt, d)
           /\ e > d + 2
           /\ e + 3 <= Len(txt)
           /\ \A k \in e..(e + 3) : IsDigit(txt[k])
        THEN e + 3
        ELSE 0

DateEnd(txt, i) ==
    IF i > Len(txt) \/ ~IsDigit(txt[i]) THEN 0
    ELSE IF i + 1 <= Len(txt) /\ IsDigit(txt[i + 1]) /\ DateRest(txt, i + 2) # 0
         THEN DateRest(txt, i + 2)
         ELSE DateRest(txt, i + 1)

DateSearch(txt) ==
    LET hits == {i \in 1..Len(txt) : DateEnd(txt, i) # 0}
    IN  IF hits = {} THEN 0 ELSE MinOf(hits)

fecha_doc(t) ==
    LET i == DateSearch(t)
    IN  IF i = 0 THEN <<>> ELSE SubSeq(t, i, DateEnd(t, i))

KeyFecha == "Fecha Documento"
KeyNombre == "Solicitante (Nombre)"
KeyUnidad == "Unidad Requirente"
KeyObjetivo == "Objetivo"
KeyMonto == "Monto Estimado"

extract_fields(txt) ==
    LET t == normalize_text(txt)
    IN  (KeyFecha :> fecha_doc(t)) @@
        (KeyNombre :> find_after(LabelNombre, t)) @@
        (KeyUnidad :> find_after(LabelUnidad, t)) @@
        (KeyObjetivo :> find_after(LabelObjetivo, t)) @@
        (KeyMonto :> to_int_num(find_after(LabelMonto, t)))

(***************************************************************************)
(* Specification of the field parser: extract_fields applied to a text     *)
(* made of an optional line before, a label, whitespace, a separator,      *)
(* whitespace, a value and an optional line after.                         *)
(***************************************************************************)
MaxGap == 1

\* a value one character longer than find_after keeps, ending in a digit
LongValue == [i \in 1..(MaxValueLen + 1) |-> IF i <= MaxValueLen THEN "a" ELSE "9"]

FieldPre == {<<>>, <<"n", "o", "m", "b", "r", "e", ":", SP, "y", NL>>}
FieldLabel == {<<>>, LabelNombre, LabelUnidad, LabelObjetivo, LabelMonto}
FieldGap == SeqsUpTo({SP, NL}, MaxGap)
FieldSep == {<<>>, <<":">>, <<"-">>}
FieldVal ==
    { <<>>,
      <<"J", "u", "a", "n", "a", SP, "P", "e", "r", "e", "z">>,
      <<"$", "1", "2", ".", "5", "0", "0", ".", "0", "0", "0">>,
      <<"0", "7">>,
      <<"3", SP, "d", "e", SP, "m", "a", "y", "o", SP, "d", "e", SP, "2", "0", "2", "4">>,
      LongValue }
FieldPost ==
    { <<>>,
      <<NL, "O", "T", "R", "O", ":", SP, "x">>,
      <<NL, "N", "o", "m", "b", "r", "e", ":", SP, "z">> }

FieldTexts ==
    { pre \o lab \o g1 \o sep \o g2 \o val \o post :
        pre \in FieldPre, lab \in FieldLabel, g1 \in FieldGap, sep \in FieldSep,
        g2 \in FieldGap, val \in FieldVal, post \in FieldPost }

FieldsInit ==
    /\ pc = "fields_start"
    /\ input \in FieldTexts
    /\ once = <<>>
    /\ twice = <<>>
    /\ fields = <<>>
    /\ ExtractIdle

ExtractFields ==
    /\ pc = "fields_start"
    /\ fields' = extract_fields(input)
    /\ pc' = "fields_done"
    /\ UNCHANGED <<input, once, twice, extractVars>>

FieldsNext == ExtractFields

SpecFields == FieldsInit /\ [][FieldsNext]_vars

(***************************************************************************)
(* Claims about the field parser                                           *)
(***************************************************************************)
TextLabels == {LabelNombre, LabelUnidad, LabelObjetivo}

KeyOf(label) ==
    IF label = LabelNombre THEN KeyNombre
    ELSE IF label = LabelUnidad THEN KeyUnidad
    ELSE KeyObjetivo

\* the normalized text extract_fields searches
Searched == normalize_text(input)

\* indices of the case-insensitive occurrences of label in t
Occurrences(label, t) == {i \in 1..Len(t) : LiteralAt(label, t, i)}

\* the rest of the line of t that starts at index p
RestOfLine(t, p) ==
    LET nls == {q \in p..Len(t) : t[q] = NL}
    IN  IF p > Len(t) THEN <<>>
        ELSE Slice(t, p, IF nls = {} THEN Len(t) ELSE MinOf(nls) - 1)

\* The value as first stated: what follows the first occurrence of the
\* label and its optional colon or dash, cut at the first line break.
ValueOnLabelLine(label, t) ==
    LET occ == Occurrences(label, t)
    IN  IF occ = {} THEN <<>>
        ELSE LET j == MinOf(occ) + Len(label)
                 spaces == {p \in j..Len(t) : \A q \in j..p : t[q] \in HSpace}
                 h == j + Cardinality(spaces)
                 start == IF h <= Len(t) /\ t[h] \in SepChars THEN h + 1 ELSE j
             IN  Truncate(Strip(RestOfLine(t, start)), MaxValueLen)

\* The value as the code finds it: after the first occurrence of the label,
\* whitespace (line breaks included), an optional colon or dash and again
\* whitespace are skipped, and the rest of the line reached there is taken.
ValueAfterLabel(label, t) ==
    LET occ == Occurrences(label, t)
    IN  IF occ = {} THEN <<>>
        ELSE LET j == MinOf(occ) + Len(label)
                 a == {p \in j..Len(t) : t[p] \notin Whitespace}
             IN  IF a = {} THEN <<>>
                 ELSE LET p1 == MinOf(a)
                          b == {p \in (p1 + 1)..Len(t) : t[p] \notin Whitespace}
                          start == IF t[p1] \in SepChars /\ b # {}
                                   THEN MinOf(b) ELSE p1
                      IN  Truncate(Strip(RestOfLine(t, start)), MaxValueLen)

\* C7 as stated: each text field is what follows the first occurrence of its
\* label (and the optional colon or dash) on the line of that occurrence,
\* trimmed and truncated to 400 characters, and is empty when the label does
\* not occur; the value never comes from a later line.
C7_ValueOnLabelLine ==
    pc = "fields_done" =>
        \A label \in TextLabels :
            fields[KeyOf(label)] = ValueOnLabelLine(label, Searched)

\* What find_after does instead: each text field is found at the first
\* occurrence of its label by skipping whitespace (line breaks included), an
\* optional colon or dash and whitespace again, and taking the rest of the
\* line reached, trimmed and truncated to 400 characters; a lone colon or
\* dash at the end of the text is itself the value; the field is empty when
\* the label does not occur or nothing follows it.
C7_ValueAfterLabel ==
    pc = "fields_done" =>
        LET t == Searched
        IN  \A label \in TextLabels :
                LET value == fields[KeyOf(label)]
                IN  /\ value = ValueAfterLabel(label, t)
                    /\ Len(value) <= MaxValueLen
                    /\ \A k \in 1..Len(value) : value[k] # NL
                    /\ Occurrences(label, t) = {} => value = <<>>

\* "NOMBRE:" alone on its line and the name on the next line: the name is
\* taken from the line after the label
C7_Witness ==
    /\ pc = "fields_done"
    /\ input = LabelNombre \o <<":", NL>>
                 \o <<"J", "u", "a", "n", "a", SP, "P", "e", "r", "e", "z">>
                 \o <<NL, "O", "T", "R", "O", ":", SP, "x">>
    /\ fields[KeyNombre] = <<"J", "u", "a", "n", "a", SP, "P", "e", "r", "e", "z">>

\* the digits of s, in order
DigitsIn(s) == SelectSeq(s, IsDigit)

RECURSIVE Pow10(_)
Pow10(n) == IF n = 0 THEN 1 ELSE 10 * Pow10(n - 1)

\* n is the number the decimal digit string d denotes
Denotes(d, n) ==
    /\ n >= 0
    /\ n < Pow10(Len(d))
    /\ \A k \in 1..Len(d) : (n \div Pow10(Len(d) - k)) % 10 = DigitVal(d[k])

\* C8: Estimated Amount is the integer denoted by the digits of the line
\* captured after "MONTO ESTIMADO", all other characters removed; when no
\* digit remains, or the label is absent, it is None and not zero.
C8_MontoFromDigits ==
    pc = "fields_done" =>
        LET t == Searched
            d == DigitsIn(find_after(LabelMonto, t))
            monto == fields[KeyMonto]
        IN  /\ d = <<>> => monto = None
            /\ d # <<>> => Len(monto) = 1 /\ Denotes(d, monto[1])
            /\ Occurrences(LabelMonto, t) = {} => monto = None

\* "MONTO ESTIMADO: $12.500.000" gives 12500000
C8_Witness ==
    /\ pc = "fields_done"
    /\ input = LabelMonto \o <<":", SP>>
                 \o <<"$", "1", "2", ".", "5", "0", "0", ".", "0", "0", "0">>
    /\ fields[KeyMonto] = Some(12500000)

\* a label followed by text without digits gives None
C8_WitnessNone ==
    /\ pc = "fields_done"
    /\ input = LabelMonto \o <<":", SP>>
                 \o <<"J", "u", "a", "n", "a", SP, "P", "e", "r", "e", "z">>
    /\ fields[KeyMonto] = None

(***************************************************************************)
(* docx_to_text                                                            *)
(***************************************************************************)
\* "sep".join(parts)
RECURSIVE Join(_, _)
Join(parts, sep) ==
    IF parts = <<>> THEN <<>>
    ELSE IF Len(parts) = 1 THEN parts[1]
    ELSE parts[1] \o sep \o Join(Tail(parts), sep)

\* the outcome of a library call: it raised, or it returned a value
Raised == [raised |-> TRUE]
Returned(v) == [raised |-> FALSE, value |-> v]

\* the rows of every table, table after table
RECURSIVE AllRows(_)
AllRows(tables) ==
    IF tables = <<>> THEN <<>> ELSE Head(tables) \o AllRows(Tail(tables))

\* " | ".join([cell.text.strip() for cell in row.cells])
RowText(row) == Join([k \in 1..Len(row) |-> Strip(row[k])], <<SP, "|", SP>>)

\* the text built from a document python-docx has opened: the paragraphs,
\* then one line per table row
StructuredText(document) ==
    LET rows == AllRows(document.tables)
        parts == document.paragraphs \o [k \in 1..Len(rows) |-> RowText(rows[k])]
    IN  Join(parts, <<NL>>)

\* An uploaded file is a stream of units: the members of a zip archive in
\* order, then the central directory, which records for every member its
\* name and the offset of its unit from the start of the archive.
DocumentXml == "word/document.xml"
ContentTypes == "[Content_Types].xml"

Member(name, data) == [kind |-> "member", name |-> name, data |-> data]

CentralDirectory(members) ==
    [kind |-> "cd",
     dir |-> [k \in 1..Len(members) |->
                [name |-> members[k].name, offset |-> k - 1]],
     offset_cd |-> Len(members)]

MkZip(members) == Append(members, CentralDirectory(members))

Junk == [kind |-> "junk"]

\* file_like.read(): the units from the read position to the end
ReadRest(stream, from) == Slice(stream, from + 1, Len(stream))

\* zipfile.ZipFile(io.BytesIO(raw)).read(name): the central directory is
\* looked for at the end of raw; the archive is taken to start where the
\* directory's recorded offset puts it, and every member offset is shifted
\* by the same amount; a member whose shifted offset falls before the start
\* of raw cannot be read.
ZipRead(raw, name) ==
    IF raw = <<>> \/ raw[Len(raw)].kind # "cd" THEN Raised
    ELSE LET cd == raw[Len(raw)]
             concat == (Len(raw) - 1) - cd.offset_cd
             hits == {k \in 1..Len(cd.dir) : cd.dir[k].name = name}
         IN  IF hits = {} THEN Raised
             ELSE LET offset == cd.dir[MaxOf(hits)].offset + concat
                  IN  IF offset < 0 THEN Raised
                      ELSE Returned(raw[offset + 1].data)

\* an undecodable byte of a zip member
BadByte == "0xFF"

\* bytes.decode("utf-8", errors="ignore")
Decode(data) == SelectSeq(data, LAMBDA c : c # BadByte)

ParaClose == <<"<", "/", "w", ":", "p", ">">>

\* s has the literal lit at index i, case kept
ExactAt(lit, s, i) ==
    /\ i + Len(lit) - 1 <= Len(s)
    /\ \A k \in 1..Len(lit) : s[i + k - 1] = lit[k]

\* re.sub(r"</w:p>", "\n", xml), scanning from index i
RECURSIVE CloseToNewline(_, _)
CloseToNewline(s, i) ==
    IF i > Len(s) THEN <<>>
    ELSE IF ExactAt(ParaClose, s, i)
         THEN <<NL>> \o CloseToNewline(s, i + Len(ParaClose))
         ELSE <<s[i]>> \o CloseToNewline(s, i + 1)

\* the pattern <[^>]+> tried at index i: the index of the closing ">", 0
\* when it does not match
TagEnd(s, i) ==
    LET closes == {c \in (i + 1)..Len(s) : s[c] = ">"}
    IN  IF s[i] # "<" \/ closes = {} \/ MinOf(closes) = i + 1 THEN 0
        ELSE MinOf(closes)

\* re.sub(r"<[^>]+>", "", xml), scanning from index i
RECURSIVE StripTags(_, _)
StripTags(s, i) ==
    IF i > Len(s) THEN <<>>
    ELSE IF TagEnd(s, i) # 0 THEN StripTags(s, TagEnd(s, i) + 1)
    ELSE <<s[i]>> \o StripTags(s, i + 1)

\* the pattern \s+\n tried at index i: the index of the newline that ends
\* the match (the last one of the whitespace run), 0 when it does not match
WsNewlineEnd(s, i) ==
    LET stop == FirstNonWs(s, i)
        nls == {k \in (i + 1)..(stop - 1) : s[k] = NL}
    IN  IF s[i] \notin Whitespace \/ nls = {} THEN 0 ELSE MaxOf(nls)

\* re.sub(r"\s+\n", "\n", text), scanning from index i
RECURSIVE TrimLineEnds(_, _)
TrimLineEnds(s, i) ==
    IF i > Len(s) THEN <<>>
    ELSE IF WsNewlineEnd(s, i) # 0
         THEN <<NL>> \o TrimLineEnds(s, WsNewlineEnd(s, i) + 1)
         ELSE <<s[i]>> \o TrimLineEnds(s, i + 1)

\* the text made from the bytes of word/document.xml
XmlToText(data) ==
    TrimLineEnds(StripTags(CloseToNewline(Decode(data), 1), 1), 1)

\* where control goes when python-docx raises; a buggy variant gives up
docx_primary_except_GiveUp == "docx_returned"

docx_primary_except == "docx_fallback"

\* where control goes when the ZIP/XML fallback raises
docx_fallback_except == "docx_returned"

Called(fn, raised) == [fn |-> fn, raised |-> raised]

\* docx_to_text, first part: python-docx
DocxPrimary ==
    /\ pc = "docx_to_text"
    /\ IF _docx
       THEN /\ calls' = Append(calls, Called("docx.Document", file.structured.raised))
            /\ IF file.structured.raised
               THEN /\ pos' = file.seek
                    /\ notices' = Append(notices, "No se pudo leer DOCX con python-docx")
                    /\ pc' = docx_primary_except
                    /\ UNCHANGED ret
               ELSE /\ ret' = StructuredText(file.structured.value)
                    /\ pc' = "docx_returned"
                    /\ UNCHANGED <<pos, notices>>
       ELSE /\ pc' = "docx_fallback"
            /\ UNCHANGED <<calls, pos, notices, ret>>
    /\ UNCHANGED <<fieldVars, ext, file, _docx, _pdfplumber, _pytesseract, out, text, logs>>

\* docx_to_text, second part: the ZIP/XML fallback
DocxFallback ==
    /\ pc = "docx_fallback"
    /\ LET raw == ReadRest(file.stream, pos)
           xml == ZipRead(raw, DocumentXml)
       IN  /\ pos' = Len(file.stream)
           /\ calls' = Append(calls, Called("zipfile.ZipFile", xml.raised))
           /\ IF xml.raised
              THEN /\ notices' = Append(notices, "No se pudo leer el DOCX (fallback ZIP/XML)")
                   /\ ret' = <<>>
                   /\ pc' = docx_fallback_except
              ELSE /\ ret' = XmlToText(xml.value)
                   /\ pc' = "docx_returned"
                   /\ UNCHANGED notices
    /\ UNCHANGED <<fieldVars, ext, file, _docx, _pdfplumber, _pytesseract, out, text, logs>>

(***************************************************************************)
(* pdf_to_text                                                             *)
(***************************************************************************)
\* page.extract_text() or ""
OrEmpty(opt) == IF opt = None THEN <<>> ELSE opt[1]

\* "\n".join(pages)
PagesText(pages) == Join([k \in 1..Len(pages) |-> OrEmpty(pages[k].layout)], <<NL>>)

\* a buggy variant: the test of the layout text inverted
layout_accepted_Inverted(txt) == IsBlank(txt)

\* if txt.strip(): return txt
layout_accepted(txt) == ~IsBlank(txt)

\* a buggy variant: the page texts joined without the newline
ocr_text_NoNewline(parts) == Join(parts, <<>>)

\* "\n".join(out)
ocr_text(parts) == Join(parts, <<NL>>)

\* where control goes when pdfplumber raises
pdfplumber_except == "pdf_ocr"

\* where control goes when OCR raises; a buggy variant lets the error out
ocr_except_Propagates == "raised"

ocr_except == "pdf_returned"

\* pdf_to_text, first stage: pdfplumber
PdfLayout ==
    /\ pc = "pdf_to_text"
    /\ IF _pdfplumber
       THEN /\ calls' = Append(calls, Called("pdfplumber.open", file.plumberRaises))
            /\ IF file.plumberRaises
               THEN /\ notices' = Append(notices, "pdfplumber fallo")
                    /\ pc' = pdfplumber_except
                    /\ UNCHANGED ret
               ELSE /\ UNCHANGED notices
                    /\ IF layout_accepted(PagesText(file.pages))
                       THEN /\ ret' = PagesText(file.pages)
                            /\ pc' = "pdf_returned"
                       ELSE /\ pc' = "pdf_ocr"
                            /\ UNCHANGED ret
       ELSE /\ pc' = "pdf_ocr"
            /\ UNCHANGED <<calls, notices, ret>>
    /\ UNCHANGED <<fieldVars, ext, file, _docx, _pdfplumber, _pytesseract, pos, out, text, logs>>

\* pdf_to_text, second stage: rasterize the pages
PdfRasterize ==
    /\ pc = "pdf_ocr"
    /\ IF _pytesseract
       THEN /\ calls' = Append(calls, Called("convert_from_bytes", file.ocrRaisesAt = 0))
            /\ out' = <<>>
            /\ IF file.ocrRaisesAt = 0
               THEN /\ notices' = Append(notices, "OCR fallo")
                    /\ ret' = <<>>
                    /\ pc' = ocr_except
               ELSE /\ pc' = "pdf_recognize"
                    /\ UNCHANGED <<notices, ret>>
       ELSE /\ ret' = <<>>
            /\ pc' = "pdf_returned"
            /\ UNCHANGED <<calls, out, notices>>
    /\ UNCHANGED <<fieldVars, ext, file, _docx, _pdfplumber, _pytesseract, pos, text, logs>>

\* pdf_to_text, second stage: recognize the next page image, or return
PdfRecognize ==
    /\ pc = "pdf_recognize"
    /\ IF Len(out) < Len(file.pages)
       THEN LET k == Len(out) + 1
            IN  /\ calls' = Append(calls, Called("image_to_string", file.ocrRaisesAt = k))
                /\ IF file.ocrRaisesAt = k
                   THEN /\ notices' = Append(notices, "OCR fallo")
                        /\ ret' = <<>>
                        /\ pc' = ocr_except
                        /\ UNCHANGED out
                   ELSE /\ out' = Append(out, file.pages[k].ocr)
                        /\ UNCHANGED <<notices, ret, pc>>
       ELSE /\ ret' = ocr_text(out)
            /\ pc' = "pdf_returned"
            /\ UNCHANGED <<calls, notices, out>>
    /\ UNCHANGED <<fieldVars, ext, file, _docx, _pdfplumber, _pytesseract, pos, text, logs>>

(***************************************************************************)
(* extract_text_any.  The log lines are written without their diacritics.  *)
(***************************************************************************)
LogDocx == "DOCX leido (python-docx o fallback ZIP/XML)."
LogDocxEmpty == "No se pudo extraer texto del DOCX."
LogPlumber == "Intentando PDF digital con pdfplumber..."
LogNoPlumber == "pdfplumber no disponible; intentare OCR..."
LogOcr == "OCR disponible (pytesseract + pdf2image)."
LogNoOcr == "OCR NO disponible. Revisa requirements.txt y packages.txt."
LogExtracted == "Texto extraido (digital u OCR)."
LogFailed == "No se pudo extraer texto (ni pdfplumber ni OCR)."
LogUnsupported == "Extension no soportada."

\* a buggy variant: the tag compared without regard to case
route_AnyCase(tag) ==
    IF tag \in {"docx", "DOCX"} THEN "docx_to_text"
    ELSE IF tag \in {"pdf", "PDF"} THEN "pdf_to_text"
    ELSE "done"

\* the branch extract_text_any takes for a format tag
route(tag) ==
    IF tag = "docx" THEN "docx_to_text"
    ELSE IF tag = "pdf" THEN "pdf_to_text"
    ELSE "done"

\* a buggy variant: blank text returned as it is
pdf_result_Verbatim(t) == t

\* the text extract_text_any returns for what pdf_to_text returned
pdf_result(t) == IF ~IsBlank(t) THEN t ELSE <<>>

\* extract_text_any up to the call of docx_to_text / pdf_to_text
Begin ==
    /\ pc = "start"
    /\ pc' = route(ext)
    /\ IF route(ext) = "docx_to_text"
       THEN UNCHANGED <<logs, text>>
       ELSE IF route(ext) = "pdf_to_text"
       THEN /\ logs' = << IF _pdfplumber THEN LogPlumber ELSE LogNoPlumber,
                          IF _pytesseract THEN LogOcr ELSE LogNoOcr >>
            /\ UNCHANGED text
       ELSE /\ text' = <<>>
            /\ logs' = <<LogUnsupported>>
    /\ UNCHANGED <<fieldVars, ext, file, _docx, _pdfplumber, _pytesseract, pos, out, ret, notices, calls>>

\* extract_text_any after docx_to_text returned
DocxDone ==
    /\ pc = "docx_returned"
    /\ text' = ret
    /\ logs' = IF IsBlank(ret) THEN <<LogDocx, LogDocxEmpty>> ELSE <<LogDocx>>
    /\ pc' = "done"
    /\ UNCHANGED <<fieldVars, ext, file, _docx, _pdfplumber, _pytesseract, pos, out, ret, notices, calls>>

\* extract_text_any after pdf_to_text returned
PdfDone ==
    /\ pc = "pdf_returned"
    /\ text' = pdf_result(ret)
    /\ logs' = Append(logs, IF ~IsBlank(ret) THEN LogExtracted ELSE LogFailed)
    /\ pc' = "done"
    /\ UNCHANGED <<fieldVars, ext, file, _docx, _pdfplumber, _pytesseract, pos, out, ret, notices, calls>>

(***************************************************************************)
(* Specification of the extractor: one call of extract_text_any, for       *)
(* every format tag, every combination of imported libraries, and files    *)
(* of up to MaxPages pages (PDF) or holding a word/document.xml of up to   *)
(* MaxXmlParts pieces (DOCX).                                              *)
(***************************************************************************)
MaxPages == 2
MaxXmlParts == 3

Tags == {"docx", "pdf", "txt", "DOCX", ""}

PageLayouts == {None, Some(<<SP>>), Some(<<"a">>)}
PageOcrs == {<<>>, <<SP>>, <<"b">>}
Pages == [layout : PageLayouts, ocr : PageOcrs]

XmlParts ==
    { <<"<", "w", ":", "p", ">">>, ParaClose, <<"a">>, <<SP>>, <<BadByte>> }

RECURSIVE Concat(_)
Concat(parts) == IF parts = <<>> THEN <<>> ELSE Head(parts) \o Concat(Tail(parts))

XmlDatas == {Concat(parts) : parts \in SeqsUpTo(XmlParts, MaxXmlParts)}

Streams ==
    {MkZip(<<Member(ContentTypes, <<>>), Member(DocumentXml, d)>>) : d \in XmlDatas}
    \cup {MkZip(<<Member(DocumentXml, d), Member(ContentTypes, <<>>)>>) : d \in XmlDatas}
    \cup {MkZip(<<Member(ContentTypes, <<>>)>>), <<Junk>>}

Documents ==
    { [paragraphs |-> <<>>, tables |-> <<>>],
      [paragraphs |-> << <<"p">>, <<>> >>,
       tables |-> << << << <<SP, "c">>, <<"d", SP>> >> >> >>] }

NoPdf == [pages |-> <<>>, plumberRaises |-> FALSE, ocrRaisesAt |-> 1]
NoDocx == [stream |-> <<Junk>>, structured |-> Raised, seek |-> 0]

\* The files a PDF tag is tried on: page texts as pdfplumber and as OCR
\* give them, whether pdfplumber raises, and where OCR raises (0: while
\* rasterizing, k: on page k, past the last page: nowhere)
PdfFiles ==
    UNION { { [pages |-> p, plumberRaises |-> pr, ocrRaisesAt |-> at,
               stream |-> NoDocx.stream, structured |-> NoDocx.structured,
               seek |-> NoDocx.seek] :
                pr \in BOOLEAN, at \in 0..(Len(p) + 1) } :
            p \in SeqsUpTo(Pages, MaxPages) }

\* The files a DOCX tag is tried on: the stream, what python-docx makes of
\* it, and the read position it leaves the stream at when it raises
DocxFiles ==
    UNION { { [pages |-> NoPdf.pages, plumberRaises |-> NoPdf.plumberRaises,
               ocrRaisesAt |-> NoPdf.ocrRaisesAt,
               stream |-> st, structured |-> d,
               seek |-> IF d.raised THEN sk ELSE 0] :
                d \in {Returned(doc) : doc \in Documents} \cup {Raised},
                sk \in 0..Len(st) } :
            st \in Streams }

\* the files a tag that is neither "docx" nor "pdf" is tried on
OtherFiles ==
    {f \in PdfFiles : Len(f.pages) = 1 /\ f.pages[1].layout = Some(<<"a">>)}
    \cup {f \in DocxFiles : ~f.structured.raised}

ExtractInit ==
    /\ pc = "start"
    /\ ext \in Tags
    /\ file \in (IF ext = "pdf" THEN PdfFiles
                 ELSE IF ext = "docx" THEN DocxFiles
                 ELSE OtherFiles)
    /\ _docx \in BOOLEAN
    /\ _pdfplumber \in BOOLEAN
    /\ _pytesseract \in BOOLEAN
    /\ pos = 0
    /\ out = <<>>
    /\ ret = <<>>
    /\ text = <<>>
    /\ logs = <<>>
    /\ notices = <<>>
    /\ calls = <<>>
    /\ input = <<>>
    /\ once = <<>>
    /\ twice = <<>>
    /\ fields = <<>>

ExtractNext ==
    \/ Begin
    \/ DocxPrimary
    \/ DocxFallback
    \/ DocxDone
    \/ PdfLayout
    \/ PdfRasterize
    \/ PdfRecognize
    \/ PdfDone

Spec == ExtractInit /\ [][ExtractNext]_vars

(***************************************************************************)
(* Claims about the extractor                                              *)
(***************************************************************************)
OcrCalls == {"convert_from_bytes", "image_to_string"}

CallsOf(fns) == {k \in 1..Len(calls) : calls[k].fn \in fns}

\* the newline-joined page texts of the layout-aware extractor
LayoutText == Join([k \in 1..Len(file.pages) |-> OrEmpty(file.pages[k].layout)], <<NL>>)

\* the newline-joined OCR texts of the pages, in page order
OcrText == Join([k \in 1..Len(file.pages) |-> file.pages[k].ocr], <<NL>>)

\* the layout-aware extractor is available, does not raise and gives
\* non-blank text
LayoutSucceeds == _pdfplumber /\ ~file.plumberRaises /\ ~IsBlank(LayoutText)

\* OCR is available and raises nowhere
OcrSucceeds == _pytesseract /\ file.ocrRaisesAt = Len(file.pages) + 1

\* C1: on the PDF path, when the layout-aware extractor is available, does
\* not raise and its joined page texts are non-blank, OCR is never invoked
\* at any point of the extraction and the returned text is the layout text.
C1_NoOcrAfterLayout ==
    (ext = "pdf" /\ LayoutSucceeds) =>
        /\ CallsOf(OcrCalls) = {}
        /\ pc \notin {"pdf_ocr", "pdf_recognize"}
        /\ pc = "done" => text = LayoutText

\* a two page PDF with a text layer, OCR installed and never called
C1_Witness ==
    /\ pc = "done"
    /\ ext = "pdf"
    /\ LayoutSucceeds
    /\ _pytesseract
    /\ Len(file.pages) = 2
    /\ text = <<"a", NL, "a">>
    /\ CallsOf(OcrCalls) = {}

\* C2 as stated: when the layout-aware extraction is blank, raises or is
\* unavailable and OCR is available and does not raise, extract returns the
\* newline-joined OCR page texts verbatim, even when they are blank.
C2_OcrVerbatim ==
    (pc = "done" /\ ext = "pdf" /\ ~LayoutSucceeds /\ OcrSucceeds) =>
        text = OcrText

\* C2 amended: in that case pdf_to_text returns the newline-joined OCR page
\* texts verbatim, in page order; extract_text_any returns them verbatim
\* when they are non-blank, and the empty string when they are blank.
C2_OcrVerbatimUnlessBlank ==
    (pc = "done" /\ ext = "pdf" /\ ~LayoutSucceeds /\ OcrSucceeds) =>
        /\ ret = OcrText
        /\ out = [k \in 1..Len(file.pages) |-> file.pages[k].ocr]
        /\ text = IF IsBlank(OcrText) THEN <<>> ELSE OcrText

\* two scanned pages whose OCR gives a space and nothing: pdf_to_text
\* returns " \n" and extract_text_any returns ""
C2_Witness ==
    /\ pc = "done"
    /\ ext = "pdf"
    /\ ~LayoutSucceeds
    /\ OcrSucceeds
    /\ ret = <<SP, NL>>
    /\ text = <<>>

\* the positions of extract_text_any and its callees from which it goes on,
\* and its return
Positions ==
    {"start", "docx_to_text", "docx_fallback", "docx_returned", "pdf_to_text",
     "pdf_ocr", "pdf_recognize", "pdf_returned", "done"}

\* some reader returned without raising
SomeMethodReturned ==
    \/ \E k \in CallsOf({"docx.Document", "zipfile.ZipFile", "pdfplumber.open"}) :
           ~calls[k].raised
    \/ /\ CallsOf(OcrCalls) # {}
       /\ \A k \in CallsOf(OcrCalls) : ~calls[k].raised

\* C3: for every tag, every combination of available libraries and every
\* combination of readers raising, no exception leaves extract_text_any: it
\* runs on to return a text and a non-empty log, and the text is the empty
\* string when no reader returned.
C3_NeverRaises ==
    /\ pc # "raised"
    /\ pc \in Positions
    /\ pc = "done" =>
        /\ logs # <<>>
        /\ ~SomeMethodReturned => text = <<>>

\* a PDF on which pdfplumber raises and OCR raises on the second page
C3_Witness ==
    /\ pc = "done"
    /\ ext = "pdf"
    /\ Len(calls) = 4
    /\ calls[1].raised
    /\ calls[4].raised
    /\ Len(notices) = 2
    /\ text = <<>>
    /\ Len(logs) = 3

\* the text the ZIP/XML fallback makes of the whole file
WholeFileXml == ZipRead(file.stream, DocumentXml)

\* C4: when the structured reader raises after reading from the stream and
\* the archive holds a word/document.xml with text in it, extract returns
\* the non-empty text of that XML with the tags stripped, wherever the
\* failed reader left the stream.
C4_FallbackSeesWholeFile ==
    ( /\ pc = "done"
      /\ ext = "docx"
      /\ _docx
      /\ file.structured.raised
      /\ ~WholeFileXml.raised
      /\ XmlToText(WholeFileXml.value) # <<>> ) =>
        /\ text # <<>>
        /\ text = XmlToText(WholeFileXml.value)

\* C5: on the DOCX path the ZIP/XML fallback is attempted exactly when the
\* structured reader is unavailable or raised, and after it; the structured
\* reader's text is final when it returns, empty or not; the text is empty
\* when the fallback raises too.
C5_DocxOrder ==
    (pc = "done" /\ ext = "docx") =>
        LET primaryFailed == ~_docx \/ file.structured.raised
            fallback == CallsOf({"zipfile.ZipFile"})
        IN  /\ fallback # {} <=> primaryFailed
            /\ _docx => calls[1].fn = "docx.Document"
            /\ \A k \in fallback : k = Len(calls)
            /\ ~primaryFailed => text = StructuredText(file.structured.value)
            /\ (primaryFailed /\ calls[Len(calls)].raised) => text = <<>>

\* python-docx opens a document without paragraphs or tables: its empty text
\* is the result and the fallback is not tried
C5_Witness ==
    /\ pc = "done"
    /\ ext = "docx"
    /\ _docx
    /\ ~file.structured.raised
    /\ file.structured.value.paragraphs = <<>>
    /\ text = <<>>
    /\ Len(calls) = 1

\* C9: for a tag other than "docx" and "pdf", whatever libraries are
\* available, no reader and no OCR is called, nothing is raised, and the
\* result is the empty text with the one unsupported-extension log line.
C9_Unsupported ==
    ext \notin {"docx", "pdf"} =>
        /\ calls = <<>>
        /\ notices = <<>>
        /\ pc \in {"start", "done"}
        /\ pc = "done" => text = <<>> /\ logs = <<LogUnsupported>>

\* the tag "txt" with every library installed
C9_Witness ==
    /\ pc = "done"
    /\ ext = "txt"
    /\ _docx /\ _pdfplumber /\ _pytesseract
    /\ logs = <<LogUnsupported>>
    /\ text = <<>>

\* C10: the log agrees with the text.  DOCX: the reader-path line, followed
\* by the could-not-extract warning exactly when the text is blank.  PDF:
\* the primary-method line, the OCR-availability line and one outcome line,
\* which says "extracted" exactly when the text is non-blank and otherwise
\* says failed, the text then being the empty string.
C10_LogAgreesWithText ==
    pc = "done" =>
        /\ ext = "docx" =>
              logs = IF IsBlank(text) THEN <<LogDocx, LogDocxEmpty>> ELSE <<LogDocx>>
        /\ ext = "pdf" =>
              /\ Len(logs) = 3
              /\ logs[1] = IF _pdfplumber THEN LogPlumber ELSE LogNoPlumber
              /\ logs[2] = IF _pytesseract THEN LogOcr ELSE LogNoOcr
              /\ logs[3] \in {LogExtracted, LogFailed}
              /\ logs[3] = LogExtracted <=> ~IsBlank(text)
              /\ logs[3] = LogFailed => text = <<>>

\* OCR returned a single space: the log says failed and the text is empty
C10_Witness ==
    /\ pc = "done"
    /\ ext = "pdf"
    /\ ret = <<SP>>
    /\ text = <<>>
    /\ logs = <<LogNoPlumber, LogOcr, LogFailed>>

====
